---- MODULE Spec2Model ----
(***************************************************************************)
(* Model of the Assimp/OpenGL model viewer: main() runs init() (shader     *)
(* build, load3DFile, per-mesh VAO/VBO upload) and then the GLUT event     *)
(* loop, whose callbacks are display() (nodeTreeTraversal over the node    *)
(* tree), reshape() and keyboard().                                        *)
(*                                                                         *)
(* Arrays keep the source's 0-based indices: a C array is a TLA+ sequence  *)
(* read through At(arr, i) == arr[i + 1].  A pointer is a record with a    *)
(* null flag.  Node pointers are node ids, 0 being the null pointer.       *)
(***************************************************************************)
EXTENDS Integers, Sequences, FiniteSets

\* ------------------------------------------------------------------------
\* Bounds and input catalogues

\* Largest number of meshes in an imported scene.
MaxMeshes == 2

At(arr, i) == arr[i + 1]

\* Pointers
NullPtr == [null |-> TRUE]
Ptr(x) == [null |-> FALSE, val |-> x]

\* Content of an unsigned int that was allocated and never written.
Indeterminate == -1

\* Values an uninitialised or out-of-bounds unsigned int read can produce.
GarbageValues == {0, 7}

\* aiMesh: vertex count and the array of aiFace (each a list of indices).
Mesh(nv, faces) == [mNumVertices |-> nv, mFaces |-> faces]

MeshCatalogue ==
    { Mesh(4, << <<0, 1, 2>>, <<0, 2, 3>> >>),        \* two triangles
      Mesh(3, << <<0, 1, 2>> >>),                     \* one triangle
      Mesh(3, << <<0, 1>>, <<1, 2>>, <<2, 0>> >>),    \* three line segments
      Mesh(2, << >>),                                 \* vertices only, no faces
      Mesh(4, << <<0, 1, 2>>, <<0, 1, 2, 3>> >>),     \* first face shortest
      Mesh(4, << <<0, 1, 2, 3>>, <<1, 2, 3>> >>) }    \* first face longest

\* aiNode: indices into the scene's mesh array, and child node pointers.
Node(meshes, children) == [mMeshes |-> meshes, mChildren |-> children]

\* Node trees: the root pointer and the node table (node id -> aiNode).
Tree(root, nodes) == [mRootNode |-> root, nodes |-> nodes]

TreeCatalogue ==
    { Tree(0, << >>),
      Tree(1, << Node(<< >>, << >>) >>),
      Tree(1, << Node(<<0>>, << >>) >>),
      Tree(1, << Node(<< >>, <<2>>), Node(<< >>, <<3>>), Node(<<0>>, << >>) >>),
      Tree(1, << Node(<<0>>, <<0, 2>>), Node(<<0>>, << >>) >>),
      Tree(1, << Node(<<1, 0>>, <<2, 3>>), Node(<<0>>, <<4>>),
                 Node(<<1>>, << >>), Node(<<1, 0>>, << >>) >>) }

MeshLists == UNION { [1..n -> MeshCatalogue] : n \in 0..MaxMeshes }

\* Every mesh index of every node is a valid index into the scene's meshes.
TreeFits(t, n) ==
    \A id \in DOMAIN t.nodes :
        \A s \in DOMAIN t.nodes[id].mMeshes : t.nodes[id].mMeshes[s] < n

\* aiScene as the importer can produce it.
Scenes ==
    { [mMeshes |-> ml, mNumMeshes |-> Len(ml),
       mRootNode |-> t.mRootNode, nodes |-> t.nodes] :
      <<ml, t>> \in { p \in MeshLists \X TreeCatalogue : TreeFits(p[2], Len(p[1])) } }

\* What is at the path objectFileName: nothing readable, a readable file the
\* importer rejects, or a readable file holding a scene.
Files ==
    { [readable |-> FALSE, importable |-> FALSE] ,
      [readable |-> TRUE, importable |-> FALSE] }
    \cup { [readable |-> TRUE, importable |-> TRUE, content |-> s] : s \in Scenes }

\* Handles glCreateProgram can return (0 on error).
ProgramHandles == {0, 1}

\* Keys delivered to keyboard(): Escape and some other keys.
EscapeKey == 27
Keys == {EscapeKey, 33, 97}

\* Window sizes delivered to reshape().
WindowSizes == { <<300, 300>>, <<640, 480>> }

\* ------------------------------------------------------------------------
\* State

VARIABLES
    pc,             \* position of the single thread of control
    file,           \* what is at objectFileName
    program,        \* GLuint program
    fileLoaded,     \* init()'s local fileLoaded
    report,         \* what load3DFile printed to the console
    importCalls,    \* number of importer.ReadFile calls made
    scene,          \* const aiScene* scene
    vaoArray,       \* unsigned int *vaoArray
    faceArray,      \* unsigned int *faceArray
    faceArrayIndex, \* init()'s local faceArrayIndex after the last copy loop
    heapOverflow,   \* a write landed outside the faceArray block
    meshI,          \* init()'s loop variable i
    vaoObjs,        \* GL vertex array objects, by name (1..); forMesh is the
                    \* mesh index init() was processing when it made the object
    nextBuffer,     \* next unused GL buffer name
    redisplay,      \* a display event is pending (glutPostRedisplay)
    viewport,       \* GL viewport size
    stack,          \* call stack of nodeTreeTraversal
    visits,         \* node pointers nodeTreeTraversal was called with, this frame
    drawLog,        \* glDrawElements calls of this frame
    swapped,        \* the last display() call reached glutSwapBuffers
    rendered,       \* display() has been called at least once
    firstDraws,     \* the draw calls of the first completed frame
    repeated,       \* display() has been called again after a completed frame
    oobFaceRead     \* mFaces[0] was read for a mesh without faces

vars == << pc, file, program, fileLoaded, report, importCalls, scene, vaoArray,
           faceArray, faceArrayIndex, heapOverflow, meshI, vaoObjs, nextBuffer,
           redisplay, viewport, stack, visits, drawLog, swapped, rendered,
           firstDraws, repeated, oobFaceRead >>

loadVars == << fileLoaded, report, importCalls, scene >>
uploadVars == << vaoArray, faceArray, faceArrayIndex, heapOverflow, meshI,
                 vaoObjs, nextBuffer >>
frameVars == << stack, visits, drawLog, swapped, rendered, firstDraws, repeated,
               oobFaceRead >>
windowVars == << redisplay, viewport >>

NoBuffer == [name |-> 0]

Init ==
    /\ pc = "init"
    /\ file \in Files
    /\ program = 0
    /\ fileLoaded = FALSE
    /\ report = "none"
    /\ importCalls = 0
    /\ scene = NullPtr
    /\ vaoArray = NullPtr
    /\ faceArray = NullPtr
    /\ faceArrayIndex = 0
    /\ heapOverflow = FALSE
    /\ meshI = 0
    /\ vaoObjs = << >>
    /\ nextBuffer = 1
    /\ redisplay = FALSE
    /\ viewport = <<300, 300>>
    /\ stack = << >>
    /\ visits = << >>
    /\ drawLog = << >>
    /\ swapped = FALSE
    /\ rendered = FALSE
    /\ firstDraws = NullPtr
    /\ repeated = FALSE
    /\ oobFaceRead = FALSE

\* ------------------------------------------------------------------------
\* load3DFile

\* Variant: the readability test is left out.
FileGood_Always(f) == TRUE

\* ifstream fileIn(filename); fileIn.good()
FileGood(f) == f.readable

\* importer.ReadFile(filename, ...): the scene, or NULL on failure.
ReadFile(f) ==
    IF f.readable /\ f.importable THEN Ptr(f.content) ELSE NullPtr

\* Variant: the failure branch reports the error and falls through to return true.
ImportReturn_Always(sc) == TRUE

\* The value load3DFile returns once the import has been attempted.
ImportReturn(sc) == ~sc.null

\* The whole of load3DFile: its return value and what it leaves behind.
load3DFile(f, oldScene) ==
    IF ~FileGood(f)
    THEN [result |-> FALSE, scene |-> oldScene,
          report |-> "Unable to open the 3D file.", imports |-> 0]
    ELSE LET sc == ReadFile(f) IN
         [result |-> ImportReturn(sc), scene |-> sc,
          report |-> IF sc.null THEN "GetErrorString" ELSE "loaded",
          imports |-> 1]

\* ------------------------------------------------------------------------
\* init()

\* Shader build: glCreateProgram hands back a handle, 0 on error; errors are
\* printed and init() carries on.
InitShaders ==
    /\ pc = "init"
    /\ program' \in ProgramHandles
    /\ pc' = "load"
    /\ UNCHANGED << file, loadVars, uploadVars, windowVars, frameVars >>

InitLoad ==
    /\ pc = "load"
    /\ LET r == load3DFile(file, scene) IN
        /\ fileLoaded' = r.result
        /\ scene' = r.scene
        /\ report' = r.report
        /\ importCalls' = importCalls + r.imports
    /\ pc' = "alloc"
    /\ UNCHANGED << file, program, uploadVars, windowVars, frameVars >>

\* if (!fileLoaded) return;  else  vaoArray = malloc(... * scene->mNumMeshes).
\* malloc(0) may return NULL or a block of no elements.
InitAlloc ==
    /\ pc = "alloc"
    /\ IF ~fileLoaded
       THEN /\ pc' = "loop"
            /\ UNCHANGED vaoArray
       ELSE IF scene.null
       THEN /\ pc' = "crashed"
            /\ UNCHANGED vaoArray
       ELSE /\ pc' = "upload"
            /\ \E p \in (IF scene.val.mNumMeshes = 0
                         THEN {NullPtr, Ptr(<< >>)}
                         ELSE {Ptr([n \in 1..scene.val.mNumMeshes |-> Indeterminate])}) :
                  vaoArray' = p
    /\ meshI' = 0
    /\ UNCHANGED << file, program, loadVars, faceArray, faceArrayIndex, heapOverflow,
                    vaoObjs, nextBuffer, windowVars, frameVars >>

HasPositions(m) == m.mNumVertices > 0
HasFaces(m) == Len(m.mFaces) > 0

\* Variant: the loop stops one mesh early.
UploadLoopCond_Short(i, n) == i + 1 < n

\* for (i = 0; i < scene->mNumMeshes; i++)
UploadLoopCond(i, n) == i < n

\* Variant: every handle is stored through the array's base address.
GenVertexArray_First(arr, i, name) == [arr EXCEPT ![1] = name]

\* glGenVertexArrays(1, &vaoArray[i])
GenVertexArray(arr, i, name) == [arr EXCEPT ![i + 1] = name]

\* faceArray[faceArrayIndex] = ...: a write past the block leaves the block as it is.
WriteFaceArray(arr, idx, v) ==
    IF idx + 1 \in DOMAIN arr THEN [arr EXCEPT ![idx + 1] = v] ELSE arr

\* Variant: the copy reads each face's first index only.
FaceIndex_First(faces, j, k) == At(At(faces, j), 0)

\* currentMesh->mFaces[j].mIndices[k]
FaceIndex(faces, j, k) == At(At(faces, j), k)

\* The copy loops over j and k; yields the block and the final faceArrayIndex.
RECURSIVE CopyFaces(_, _, _, _, _)
CopyFaces(faces, j, k, arr, idx) ==
    IF j >= Len(faces) THEN [arr |-> arr, idx |-> idx]
    ELSE IF k >= Len(At(faces, j)) THEN CopyFaces(faces, j + 1, 0, arr, idx)
    ELSE CopyFaces(faces, j, k + 1,
                   WriteFaceArray(arr, idx, FaceIndex(faces, j, k)), idx + 1)

\* malloc size and glBufferData size, in elements.
FaceArrayCapacity(m) == Len(m.mFaces) * Len(At(m.mFaces, 0))

\* One iteration of init()'s loop over the meshes.
UploadMesh ==
    /\ pc = "upload"
    /\ UploadLoopCond(meshI, scene.val.mNumMeshes)
    /\ LET m == At(scene.val.mMeshes, meshI)
           vao == Len(vaoObjs) + 1
           vbo == IF HasPositions(m)
                  THEN [name |-> nextBuffer, floats |-> 3 * m.mNumVertices]
                  ELSE NoBuffer
           eboName == IF HasPositions(m) THEN nextBuffer + 1 ELSE nextBuffer
       IN
        /\ vaoArray' = Ptr(GenVertexArray(vaoArray.val, meshI, vao))
        /\ IF HasFaces(m)
           THEN LET cap == FaceArrayCapacity(m)
                    c == CopyFaces(m.mFaces, 0, 0, [p \in 1..cap |-> Indeterminate], 0)
                    unwritten == { p \in 1..cap : p > c.idx }
                IN
                 \E fill \in [unwritten -> GarbageValues] :
                 \E crash \in (IF c.idx > cap THEN BOOLEAN ELSE {FALSE}) :
                   LET block == [p \in 1..cap |->
                                   IF p \in unwritten THEN fill[p] ELSE c.arr[p]]
                   IN
                    /\ faceArray' = Ptr(block)
                    /\ faceArrayIndex' = c.idx
                    /\ heapOverflow' = (heapOverflow \/ c.idx > cap)
                    /\ vaoObjs' = Append(vaoObjs,
                                    [forMesh |-> meshI, vbo |-> vbo,
                                     ebo |-> [name |-> eboName, data |-> block]])
                    /\ nextBuffer' = eboName + 1
                    /\ pc' = IF crash THEN "crashed" ELSE "upload"
           ELSE /\ vaoObjs' = Append(vaoObjs,
                                [forMesh |-> meshI, vbo |-> vbo, ebo |-> NoBuffer])
                /\ nextBuffer' = eboName
                /\ UNCHANGED << faceArray, faceArrayIndex, heapOverflow, pc >>
    /\ meshI' = meshI + 1
    /\ UNCHANGED << file, program, loadVars, windowVars, frameVars >>

\* The loop has ended: the rest of init(), then main() registers the callbacks
\* and enters glutMainLoop().
InitFinish ==
    /\ pc = "upload"
    /\ ~UploadLoopCond(meshI, scene.val.mNumMeshes)
    /\ pc' = "loop"
    /\ UNCHANGED << file, program, loadVars, uploadVars, windowVars, frameVars >>

\* ------------------------------------------------------------------------
\* display() and nodeTreeTraversal()

\* Variant: display() calls the traversal without testing the scene pointer.
SceneSet_Unchecked(sc) == TRUE

\* if (scene)
SceneSet(sc) == ~sc.null

\* A call of nodeTreeTraversal(node): a null node returns at once, any other
\* node gets a stack frame with its loop variables i and j.
CallTraversal(stk, node) ==
    IF node = 0 THEN stk ELSE Append(stk, [node |-> node, i |-> 0, j |-> 0])

TopFrame == stack[Len(stack)]
TopNode == scene.val.nodes[TopFrame.node]

\* for (i = 0; i < node->mNumMeshes; i++)
MeshLoopCond(i, node) == i < Len(node.mMeshes)

\* Variant: a node without meshes is left before its children are visited.
ChildLoopCond_NeedsMesh(j, node) == j < Len(node.mChildren) /\ Len(node.mMeshes) > 0

\* for (j = 0; j < node->mNumChildren; j++)
ChildLoopCond(j, node) == j < Len(node.mChildren)

\* Variant: the children are taken from the end of the array.
ChildAt_Reversed(node, j) == At(node.mChildren, Len(node.mChildren) - 1 - j)

\* node->mChildren[j]
ChildAt(node, j) == At(node.mChildren, j)

\* Variant: the iteration makes a new vertex array in the mesh's slot
\* (glGenVertexArrays where glBindVertexArray is meant) and draws with it.
DrawMeshEffect_Regenerates(table, meshIndex, numFaces, numIndicesPerFace) ==
    [table |-> [table EXCEPT ![meshIndex + 1] = @ + 1],
     vao |-> At(table, meshIndex) + 1,
     count |-> numFaces * numIndicesPerFace]

\* Variant: glDrawElements is given the number of faces, not of face indices.
DrawMeshEffect_FaceCount(table, meshIndex, numFaces, numIndicesPerFace) ==
    [table |-> table,
     vao |-> At(table, meshIndex),
     count |-> numFaces]

\* What one iteration of the mesh loop does with the handle table and which
\* draw call it issues: glBindVertexArray(vaoArray[meshIndex]) only reads the
\* table, glDrawElements gets (numFaces * numIndicesPerFace).  The operands of
\* every catalogued mesh and every garbage value are below 8, so the unsigned
\* product never wraps.
DrawMeshEffect(table, meshIndex, numFaces, numIndicesPerFace) ==
    [table |-> table,
     vao |-> At(table, meshIndex),
     count |-> numFaces * numIndicesPerFace]

\* display() up to the call of nodeTreeTraversal(scene->mRootNode).
Display ==
    /\ pc = "loop"
    /\ redisplay' = FALSE
    /\ rendered' = TRUE
    /\ repeated' = (repeated \/ ~firstDraws.null)
    /\ swapped' = FALSE
    /\ drawLog' = << >>
    /\ IF SceneSet(scene)
       THEN IF scene.null
            THEN /\ pc' = "crashed"
                 /\ UNCHANGED << stack, visits >>
            ELSE /\ pc' = "display"
                 /\ visits' = << scene.val.mRootNode >>
                 /\ stack' = CallTraversal(<< >>, scene.val.mRootNode)
       ELSE /\ pc' = "display"
            /\ visits' = << >>
            /\ stack' = << >>
    /\ UNCHANGED << file, program, loadVars, uploadVars, viewport, firstDraws,
                    oobFaceRead >>

\* One iteration of the loop over the node's meshes: bind the VAO, read the
\* face count and the first face's index count, draw, unbind.  With no faces
\* the read of mFaces[0] is outside the array: the process faults or the read
\* yields some value.
DrawMesh ==
    /\ pc = "display"
    /\ stack # << >>
    /\ MeshLoopCond(TopFrame.i, TopNode)
    /\ LET meshIndex == At(TopNode.mMeshes, TopFrame.i)
           currentMesh == At(scene.val.mMeshes, meshIndex)
           numFaces == Len(currentMesh.mFaces)
       IN
        \E fault \in (IF numFaces = 0 THEN BOOLEAN ELSE {FALSE}) :
        \E numIndicesPerFace \in (IF numFaces = 0 THEN GarbageValues
                                  ELSE {Len(At(currentMesh.mFaces, 0))}) :
          /\ oobFaceRead' = (oobFaceRead \/ numFaces = 0)
          /\ IF vaoArray.null \/ fault
             THEN /\ pc' = "crashed"
                  /\ UNCHANGED << vaoArray, stack, drawLog >>
             ELSE LET e == DrawMeshEffect(vaoArray.val, meshIndex, numFaces,
                                          numIndicesPerFace)
                  IN
                   /\ vaoArray' = Ptr(e.table)
                   /\ drawLog' = Append(drawLog,
                         [vao |-> e.vao, count |-> e.count, mesh |-> meshIndex,
                          node |-> TopFrame.node, slot |-> TopFrame.i])
                   /\ stack' = [stack EXCEPT ![Len(stack)].i = @ + 1]
                   /\ UNCHANGED pc
    /\ UNCHANGED << file, program, loadVars, faceArray, faceArrayIndex, heapOverflow,
                    meshI, vaoObjs, nextBuffer, windowVars, visits, swapped,
                    rendered, firstDraws, repeated >>

\* One iteration of the loop over the children: nodeTreeTraversal(node->mChildren[j]).
\* A null child returns at once, so its iteration is over in this step.
CallChild ==
    /\ pc = "display"
    /\ stack # << >>
    /\ ~MeshLoopCond(TopFrame.i, TopNode)
    /\ ChildLoopCond(TopFrame.j, TopNode)
    /\ LET child == ChildAt(TopNode, TopFrame.j) IN
        /\ visits' = Append(visits, child)
        /\ stack' = IF child = 0
                    THEN [stack EXCEPT ![Len(stack)].j = @ + 1]
                    ELSE CallTraversal(stack, child)
    /\ UNCHANGED << pc, file, program, loadVars, uploadVars, windowVars, drawLog,
                    swapped, rendered, firstDraws, repeated, oobFaceRead >>

\* Both loops are over: return to the caller, whose child loop moves on.
Return ==
    /\ pc = "display"
    /\ stack # << >>
    /\ ~MeshLoopCond(TopFrame.i, TopNode)
    /\ ~ChildLoopCond(TopFrame.j, TopNode)
    /\ LET rest == SubSeq(stack, 1, Len(stack) - 1) IN
        stack' = IF rest = << >> THEN rest
                 ELSE [rest EXCEPT ![Len(rest)].j = @ + 1]
    /\ UNCHANGED << pc, file, program, loadVars, uploadVars, windowVars, visits,
                    drawLog, swapped, rendered, firstDraws, repeated, oobFaceRead >>

\* glutSwapBuffers(): the frame is complete and display() returns.
SwapBuffers ==
    /\ pc = "display"
    /\ stack = << >>
    /\ swapped' = TRUE
    /\ firstDraws' = IF firstDraws.null THEN Ptr(drawLog) ELSE firstDraws
    /\ pc' = "loop"
    /\ UNCHANGED << file, program, loadVars, uploadVars, windowVars, stack, visits,
                    drawLog, rendered, repeated, oobFaceRead >>

\* ------------------------------------------------------------------------
\* reshape() and keyboard()

Reshape ==
    /\ pc = "loop"
    /\ \E size \in WindowSizes : viewport' = size
    /\ UNCHANGED << pc, file, program, loadVars, uploadVars, redisplay, frameVars >>

\* Variant: the case label is read as decimal 33 instead of octal 033.
IsEscape_Decimal(key) == key = 33

\* case 033: // Escape Key
IsEscape(key) == key = EscapeKey

\* keyboard(key, x, y): exit(EXIT_SUCCESS) on Escape, glutPostRedisplay() otherwise.
KeyboardKey(key) ==
    /\ pc = "loop"
    /\ IF IsEscape(key)
       THEN /\ pc' = "exited"
            /\ UNCHANGED redisplay
       ELSE /\ redisplay' = TRUE
            /\ UNCHANGED pc
    /\ UNCHANGED << file, program, loadVars, uploadVars, viewport, frameVars >>

Keyboard == \E key \in Keys : KeyboardKey(key)

\* ------------------------------------------------------------------------

Next ==
    \/ InitShaders
    \/ InitLoad
    \/ InitAlloc
    \/ UploadMesh
    \/ InitFinish
    \/ Display
    \/ DrawMesh
    \/ CallChild
    \/ Return
    \/ SwapBuffers
    \/ Reshape
    \/ Keyboard

Spec == Init /\ [][Next]_vars

\* ------------------------------------------------------------------------
\* Properties

\* init() has returned and main() has entered the event loop.
InitDone == pc \in {"loop", "display", "exited"} \/ rendered

TableLen == IF vaoArray.null THEN 0 ELSE Len(vaoArray.val)

NumMeshes == scene.val.mNumMeshes

\* C1: once init() has completed after a successful load, the handle table
\* has one entry per scene mesh, entry i being the VAO made while init() was
\* processing mesh i; and no step of the event loop changes the table.
C1_TableAligned ==
    (InitDone /\ fileLoaded) =>
        /\ TableLen = NumMeshes
        /\ \A i \in 0..(NumMeshes - 1) :
              /\ At(vaoArray.val, i) \in DOMAIN vaoObjs
              /\ vaoObjs[At(vaoArray.val, i)].forMesh = i

C1_HandleTable ==
    /\ []C1_TableAligned
    /\ [][InitDone => vaoArray' = vaoArray]_vars

C1_Witness ==
    /\ pc = "loop"
    /\ swapped
    /\ redisplay
    /\ fileLoaded
    /\ NumMeshes = MaxMeshes
    /\ Len(drawLog) > 1

\* C2: after a failed load every display() call enters no traversal, issues
\* no draw call, never touches the unallocated handle table, does not fault,
\* and its only step is the buffer swap that ends the frame.
C2_NothingDrawn ==
    (pc \notin {"init", "load"} /\ ~fileLoaded) =>
        /\ scene.null
        /\ vaoArray.null
        /\ stack = << >>
        /\ visits = << >>
        /\ drawLog = << >>
        /\ pc # "crashed"

C2_FailedLoad ==
    /\ []C2_NothingDrawn
    /\ [][(pc = "display" /\ ~fileLoaded) => (pc' = "loop" /\ swapped')]_vars

C2_Witness ==
    /\ ~fileLoaded
    /\ pc = "loop"
    /\ rendered
    /\ swapped
    /\ redisplay

\* C3: a mesh without faces gets no index buffer, and the traversal skips its
\* draw without reading an element of its empty face array.
C3_ZeroFaceSkipped ==
    /\ (~scene.null /\ ~vaoArray.null) =>
          \A i \in 0..(meshI - 1) :
              ~HasFaces(At(scene.val.mMeshes, i)) =>
                  vaoObjs[At(vaoArray.val, i)].ebo = NoBuffer
    /\ ~oobFaceRead
    /\ \A p \in DOMAIN drawLog :
          HasFaces(At(scene.val.mMeshes, drawLog[p].mesh))

\* Every face of the mesh has as many indices as the first.
UniformFaces(m) ==
    \A j \in DOMAIN m.mFaces : Len(m.mFaces[j]) = Len(m.mFaces[1])

\* C4: for a mesh of F >= 1 faces with K indices each, the uploaded index
\* data has F*K elements, element j*K+k being index k of face j.
C4_IndexData ==
    (~scene.null /\ ~vaoArray.null) =>
        \A i \in 0..(meshI - 1) :
            LET m == At(scene.val.mMeshes, i)
                F == Len(m.mFaces)
                K == Len(m.mFaces[1])
                ebo == vaoObjs[At(vaoArray.val, i)].ebo
            IN (F >= 1 /\ UniformFaces(m)) =>
                  /\ ebo.name # 0
                  /\ Len(ebo.data) = F * K
                  /\ \A j \in 0..(F - 1) : \A k \in 0..(K - 1) :
                        At(ebo.data, j * K + k) = At(At(m.mFaces, j), k)

\* The spec's example: two triangles in mesh 0, one in mesh 1.
C4_Witness ==
    /\ pc = "loop"
    /\ fileLoaded
    /\ NumMeshes = 2
    /\ Len(At(scene.val.mMeshes, 0).mFaces) = 2
    /\ Len(At(scene.val.mMeshes, 1).mFaces) = 1
    /\ Len(vaoObjs[At(vaoArray.val, 0)].ebo.data) = 6
    /\ Len(vaoObjs[At(vaoArray.val, 1)].ebo.data) = 3

\* The nodes of the subtree hanging from node pointer n (none for a null pointer).
RECURSIVE Subtree(_, _)
Subtree(sc, n) ==
    IF n = 0 THEN {}
    ELSE {n} \cup UNION { Subtree(sc, sc.nodes[n].mChildren[c]) :
                          c \in DOMAIN sc.nodes[n].mChildren }

\* Draw call d1 comes before d2 in depth-first pre-order: same node and an
\* earlier mesh slot, or d1's node is a proper ancestor of d2's, or the two
\* nodes lie under an earlier and a later child of some node.
PreOrderBefore(sc, d1, d2) ==
    \/ d1.node = d2.node /\ d1.slot < d2.slot
    \/ d1.node # d2.node /\ d2.node \in Subtree(sc, d1.node)
    \/ \E a \in DOMAIN sc.nodes :
         \E c1, c2 \in DOMAIN sc.nodes[a].mChildren :
            /\ c1 < c2
            /\ d1.node \in Subtree(sc, sc.nodes[a].mChildren[c1])
            /\ d2.node \in Subtree(sc, sc.nodes[a].mChildren[c2])

\* display() has returned from a complete frame of a loaded scene.
FrameDone == pc = "loop" /\ swapped /\ ~scene.null

\* C5: the draw calls of a frame come in depth-first pre-order; a finished
\* frame holds exactly one draw call per mesh slot of every node under the
\* root, for that slot's mesh and handle; a null node has no stack frame and
\* no draw call.
C5_PreOrder ==
    /\ \A p, q \in DOMAIN drawLog :
          p < q => PreOrderBefore(scene.val, drawLog[p], drawLog[q])
    /\ \A f \in DOMAIN stack : stack[f].node # 0
    /\ \A p \in DOMAIN drawLog :
          /\ drawLog[p].node \in Subtree(scene.val, scene.val.mRootNode)
          /\ drawLog[p].slot + 1 \in DOMAIN scene.val.nodes[drawLog[p].node].mMeshes
    /\ FrameDone =>
          \A n \in Subtree(scene.val, scene.val.mRootNode) :
             \A s \in DOMAIN scene.val.nodes[n].mMeshes :
                \E p \in DOMAIN drawLog :
                   /\ drawLog[p].node = n
                   /\ drawLog[p].slot = s - 1
                   /\ drawLog[p].mesh = scene.val.nodes[n].mMeshes[s]
                   /\ drawLog[p].vao = At(vaoArray.val, drawLog[p].mesh)
                   /\ \A q \in DOMAIN drawLog :
                         (drawLog[q].node = n /\ drawLog[q].slot = s - 1) => q = p

\* A finished frame of the four-node tree: six draw calls.
C5_Witness ==
    /\ FrameDone
    /\ Len(drawLog) = 6
    /\ Cardinality(Subtree(scene.val, scene.val.mRootNode)) = 4

\* Number of child pointers (null ones included) of the nodes in set S.
RECURSIVE ChildPointers(_, _)
ChildPointers(sc, S) ==
    IF S = {} THEN 0
    ELSE LET n == CHOOSE x \in S : TRUE
         IN Len(sc.nodes[n].mChildren) + ChildPointers(sc, S \ {n})

\* C6: a node without meshes has no draw call of its own, and in a finished
\* frame every node under the root was visited exactly once and every child
\* pointer of every such node was passed to the traversal.
C6_MeshlessNodes ==
    /\ \A p \in DOMAIN drawLog :
          scene.val.nodes[drawLog[p].node].mMeshes # << >>
    /\ FrameDone =>
          LET reach == Subtree(scene.val, scene.val.mRootNode) IN
          /\ \A n \in reach :
                Cardinality({ p \in DOMAIN visits : visits[p] = n }) = 1
          /\ Len(visits) = 1 + ChildPointers(scene.val, reach)

\* A finished frame of the chain: two nodes without meshes above one with a mesh.
C6_Witness ==
    /\ FrameDone
    /\ visits = <<1, 2, 3>>
    /\ scene.val.nodes[1].mMeshes = << >>
    /\ scene.val.nodes[2].mMeshes = << >>
    /\ Len(drawLog) = 1
    /\ drawLog[1].node = 3

\* init()'s upload loop has run to its end: every table entry holds the name
\* of a vertex array object.
TablePopulated ==
    /\ pc # "upload"
    /\ meshI = NumMeshes
    /\ TableLen = NumMeshes
    /\ \A i \in 0..(NumMeshes - 1) :
          /\ At(vaoArray.val, i) # Indeterminate
          /\ At(vaoArray.val, i) \in DOMAIN vaoObjs

\* C7: display() is first called only after init() has finished its upload
\* loop with every handle-table entry filled, and no upload step follows a
\* display() call.
C7_UploadBeforeRender ==
    /\ [](rendered => (IF fileLoaded THEN TablePopulated ELSE vaoObjs = << >>))
    /\ [][rendered => UNCHANGED << vaoArray, vaoObjs, meshI, faceArray, nextBuffer >>]_vars
    /\ [][(pc = "upload" \/ pc' = "upload") => ~rendered']_vars

C7_Witness ==
    /\ pc = "display"
    /\ fileLoaded
    /\ NumMeshes = MaxMeshes
    /\ stack # << >>
    /\ TablePopulated

\* C8: with an unreadable file load3DFile returns false with the "unable to
\* open" report, never calls the importer and leaves the scene NULL; init()
\* then allocates no handle table and creates no GL object.
C8_Unreadable ==
    (~file.readable /\ pc \notin {"init", "load"}) =>
        /\ ~fileLoaded
        /\ report = "Unable to open the 3D file."
        /\ importCalls = 0
        /\ scene.null
        /\ vaoArray.null
        /\ faceArray.null
        /\ vaoObjs = << >>
        /\ nextBuffer = 1
        /\ meshI = 0
        /\ pc \in {"alloc", "loop", "display", "exited"}

C8_Witness ==
    /\ ~file.readable
    /\ pc = "loop"
    /\ report = "Unable to open the 3D file."

\* C9: with a readable file load3DFile returns true exactly when the scene is
\* non-null afterwards (a failed import returns false and leaves it NULL, a
\* successful one returns true with the imported scene), so the upload loop
\* never runs on a null scene.
C9_Readable ==
    (file.readable /\ pc \notin {"init", "load"}) =>
        /\ importCalls = 1
        /\ fileLoaded <=> ~scene.null
        /\ ~file.importable =>
              (~fileLoaded /\ scene.null /\ report = "GetErrorString")
        /\ file.importable =>
              (fileLoaded /\ scene = Ptr(file.content) /\ report = "loaded")
        /\ pc = "upload" => ~scene.null
        /\ scene.null => (pc # "crashed" /\ vaoArray.null /\ vaoObjs = << >>)

C9_Witness ==
    /\ file.readable
    /\ ~file.importable
    /\ pc = "loop"
    /\ ~fileLoaded
    /\ scene.null

\* The draw calls proper: the bound vertex array and the element count.
DrawCalls(log) == [p \in DOMAIN log |-> << log[p].vao, log[p].count >>]

\* C10: no step of display() changes the scene pointer, the handle table or
\* the GL objects, and every finished frame issues the draw calls of the
\* first finished frame, in the same order.
C10_Idempotent ==
    /\ [][(pc = "display" \/ pc' = "display") =>
             UNCHANGED << scene, vaoArray, vaoObjs, faceArray, program, file >>]_vars
    /\ []((pc = "loop" /\ swapped) =>
             (~firstDraws.null /\ DrawCalls(drawLog) = DrawCalls(firstDraws.val)))

\* A second frame of a loaded scene with draw calls has finished.
C10_Witness ==
    /\ FrameDone
    /\ repeated
    /\ Len(drawLog) > 2
    /\ DrawCalls(drawLog) = DrawCalls(firstDraws.val)

\* The two states of the program, read off its data: the scene is unset, or
\* the scene is set and every mesh has its entry in the handle table.
Uninitialized == scene.null /\ vaoArray.null /\ vaoObjs = << >>

Ready ==
    /\ ~scene.null
    /\ meshI = NumMeshes
    /\ TableLen = NumMeshes
    /\ \A i \in 0..(NumMeshes - 1) :
          /\ At(vaoArray.val, i) # Indeterminate
          /\ At(vaoArray.val, i) \in DOMAIN vaoObjs

\* C11: in the event loop the program is in exactly one of the states
\* Uninitialized and Ready; it becomes Ready only inside init(), before any
\* display() call, and only after a successful load; Ready is never left, and
\* no step of the event loop changes the state.
C11_TwoStates ==
    /\ [](InitDone => (Uninitialized \/ Ready))
    /\ [](Ready => (fileLoaded /\ file.readable /\ file.importable))
    /\ [](InitDone => (Ready <=> fileLoaded))
    /\ [][(~Ready /\ Ready') => (pc \in {"load", "alloc", "upload"} /\ ~rendered')]_vars
    /\ [][Ready => Ready']_vars
    /\ [][InitDone => ((Ready' <=> Ready) /\ (Uninitialized' <=> Uninitialized))]_vars

\* A Ready program after a frame, a reshape and a key press.
C11_Witness ==
    /\ pc = "loop"
    /\ Ready
    /\ NumMeshes = MaxMeshes
    /\ repeated
    /\ swapped
    /\ redisplay
    /\ viewport # <<300, 300>>

\* The program state besides the thread's position: the globals and the GL objects.
ProgramState == << scene, vaoArray, faceArray, program, vaoObjs, nextBuffer, viewport >>

\* C12: Escape ends the process and posts no redisplay; any other key posts
\* a redisplay, leaves the process running and changes no program state.
C12_Keyboard ==
    [][\A key \in Keys :
          KeyboardKey(key) =>
             IF key = EscapeKey
             THEN pc' = "exited" /\ redisplay' = redisplay /\ UNCHANGED ProgramState
             ELSE pc' = pc /\ redisplay' /\ UNCHANGED ProgramState]_vars

\* Escape was pressed in a Ready program with no redisplay pending.
C12_Witness ==
    /\ pc = "exited"
    /\ ~redisplay
    /\ Ready
    /\ rendered

\* C13: a draw call for mesh m binds handle-table entry m and asks for
\* (face count) * (index count of the first face) elements, 0 for a mesh
\* without faces; this never exceeds the uploaded index data and equals its
\* length when all faces have the first face's index count.
C13_DrawSize ==
    \A p \in DOMAIN drawLog :
        LET d == drawLog[p]
            m == At(scene.val.mMeshes, d.mesh)
            F == Len(m.mFaces)
            ebo == vaoObjs[At(vaoArray.val, d.mesh)].ebo
        IN /\ d.mesh = At(scene.val.nodes[d.node].mMeshes, d.slot)
           /\ d.vao = At(vaoArray.val, d.mesh)
           /\ IF F = 0
              THEN d.count = 0 /\ ebo = NoBuffer
              ELSE /\ d.count = F * Len(m.mFaces[1])
                   /\ d.count <= Len(ebo.data)
                   /\ UniformFaces(m) => d.count = Len(ebo.data)

\* A draw call of the three-segment line mesh: 3 faces of 2 indices.
C13_Witness ==
    /\ FrameDone
    /\ \E p \in DOMAIN drawLog :
          /\ Len(At(scene.val.mMeshes, drawLog[p].mesh).mFaces) = 3
          /\ drawLog[p].count = 6
          /\ Len(vaoObjs[drawLog[p].vao].ebo.data) = 6

\* C14: the copy loop never writes at or beyond faceArray's capacity, whatever
\* the index counts of the faces.
C14_WritesWithinCapacity ==
    /\ ~heapOverflow
    /\ ~faceArray.null => faceArrayIndex <= Len(faceArray.val)

====
